---- MODULE Spec2Model ----
(***************************************************************************)
(* Tab-group store of the tab-management extension: saveTabs               *)
(* (src/utils/storage.ts) and the background handlers                      *)
(* removeUrlFromStorage, removeFromParentCategories,                       *)
(* checkAndRemoveExpiredTabs and updateTabTimestamps                       *)
(* (src/unnamed/part_000), run as interleaved asynchronous handlers over   *)
(* chrome.storage.local.  Every await of a storage get/set is one step;    *)
(* the code between two awaits runs inside the step that resumes it.       *)
(* Times are in seconds (the code's milliseconds divided by 1000).         *)
(***************************************************************************)
EXTENDS Integers, Sequences, FiniteSets, TLC

VARIABLES
  savedTabs,         \* chrome.storage.local "savedTabs": sequence of TabGroup
  parentCategories,  \* chrome.storage.local "parentCategories"
  userSettings,      \* chrome.storage.local "userSettings"
  now,               \* Date.now()
  tasks,             \* handlers suspended on a storage call, with their locals
  nextId,            \* source of fresh uuidv4 values
  opCount,           \* number of handlers started so far
  completed,         \* history: group removals decided by finished handlers
  lastSweep,         \* history: the last filter pass of checkAndRemoveExpiredTabs
  draggedUrlInfo,    \* the background script's draggedUrlInfo
  timers,            \* pending setTimeout callbacks
  scheduler,         \* chrome.alarms: its presence, the alarm, the listener
  responses          \* sendResponse calls, by message

\* the state of the background script outside chrome.storage.local
hostVars == <<draggedUrlInfo, timers, scheduler, responses>>

vars == <<savedTabs, parentCategories, userSettings, now, tasks, nextId,
          opCount, completed, lastSweep, hostVars>>

(***************************** bounds **************************************)
MaxOps == 2
MaxBatch == 2
MaxTicks == 1
Now0 == 40000000
TickStep == 30

(***************************** values **************************************)
\* savedAt?: number -- an absent savedAt
NoSavedAt == -1
\* number | null -- the null returned by getExpirationPeriodMs
Null == -1

\* A url is kept in parsed form; scheme = "" with a path is a string that
\* new URL() rejects, NoUrl is a tab without url.
NoUrl == [scheme |-> "", host |-> "", port |-> "", path |-> ""]
UrlA1 == [scheme |-> "https", host |-> "a.com", port |-> "", path |-> "/1"]
UrlA2 == [scheme |-> "https", host |-> "a.com", port |-> "", path |-> "/2"]
UrlB1 == [scheme |-> "https", host |-> "b.com", port |-> "8080", path |-> "/1"]
UrlExt == [scheme |-> "chrome-extension", host |-> "abcdef", port |-> "", path |-> "/saved-tabs.html"]
UrlBad == [scheme |-> "", host |-> "", port |-> "", path |-> "not a url"]
UrlChrome == [scheme |-> "chrome", host |-> "settings", port |-> "", path |-> "/"]

Tab(u, t) == [url |-> u, title |-> t]

Tabs ==
  { Tab(UrlA1, "A"), Tab(UrlA1, ""), Tab(UrlA2, "A2"), Tab(UrlB1, "B"),
    Tab(UrlExt, "E"), Tab(UrlBad, "X"), Tab(NoUrl, "N") }

RECURSIVE SeqsUpTo(_, _)
SeqsUpTo(S, n) ==
  IF n = 0 THEN { <<>> }
  ELSE LET shorter == SeqsUpTo(S, n - 1)
       IN shorter \cup { Append(s, x) : s \in shorter, x \in S }

Batches == SeqsUpTo(Tabs, MaxBatch) \ { <<>> }

RemoveAt(s, i) == SubSeq(s, 1, i - 1) \o SubSeq(s, i + 1, Len(s))

Range(s) == { s[i] : i \in 1..Len(s) }

(************************ src/utils/storage.ts *****************************)
\* faulty variant of DomainOf: the key is taken from the path
DomainOfPath(u) == [scheme |-> u.scheme, host |-> u.path]

\* `${url.protocol}//${url.hostname}`: scheme and host, without port and path
DomainOf(u) == [scheme |-> u.scheme, host |-> u.host]

\* new URL(tab.url) throws on a string without a scheme
Parses(u) == u.scheme # ""

\* tab.url.startsWith("chrome-extension://")
IsExtensionUrl(u) == u.scheme = "chrome-extension"

\* groupedTabs: a Map<string, TabGroup>, as its entries in insertion order
\* groupedTabs.has(key)
MapHas(m, key) == \E i \in 1..Len(m) : m[i].key = key

MapIndex(m, key) == CHOOSE i \in 1..Len(m) : m[i].key = key

\* groupedTabs.get(key)
MapGet(m, key) == m[MapIndex(m, key)].value

\* groupedTabs.set(key, value): one entry per key, at the place of the key's
\* first insertion
MapSet(m, key, value) ==
  IF MapHas(m, key) THEN [m EXCEPT ![MapIndex(m, key)].value = value]
  ELSE Append(m, [key |-> key, value |-> value])

\* Array.from(groupedTabs.values())
MapValues(m) == [i \in 1..Len(m) |-> m[i].value]

\* faulty variant of LoadMap: the stored groups are keyed by id, not domain
RECURSIVE LoadMapById(_, _)
LoadMapById(m, groups) ==
  IF groups = <<>> THEN m
  ELSE LoadMapById(
         MapSet(m, [scheme |-> "id", host |-> ToString(Head(groups).id)],
                Head(groups)),
         Tail(groups))

\* for (const group of savedTabs) groupedTabs.set(group.domain, group)
RECURSIVE LoadMap(_, _)
LoadMap(m, groups) ==
  IF groups = <<>> THEN m
  ELSE LoadMap(MapSet(m, Head(groups).domain, Head(groups)), Tail(groups))

\* faulty variant of UrlExists: the title is part of the key
UrlExistsWithTitle(group, tab) ==
  \E i \in 1..Len(group.urls) :
    group.urls[i].url = tab.url /\ group.urls[i].title = tab.title

\* group.urls.some((existingUrl) => existingUrl.url === tab.url)
UrlExists(group, tab) ==
  \E i \in 1..Len(group.urls) : group.urls[i].url = tab.url

\* one iteration of the loop over tabs; st = [map, nid], nid the next uuid
MergeTab(st, tab) ==
  IF tab.url = NoUrl THEN st
  ELSE IF IsExtensionUrl(tab.url) THEN st
  ELSE IF ~Parses(tab.url) THEN st
  ELSE
    LET domain == DomainOf(tab.url)
        fresh == ~MapHas(st.map, domain)
        m1 == IF fresh
              THEN MapSet(st.map, domain,
                          [id |-> st.nid, domain |-> domain,
                           urls |-> <<>>, savedAt |-> NoSavedAt])
              ELSE st.map
        nid1 == IF fresh THEN st.nid + 1 ELSE st.nid
        group == MapGet(m1, domain)
        m2 == IF UrlExists(group, tab) THEN m1
              ELSE [m1 EXCEPT ![MapIndex(m1, domain)].value.urls =
                      Append(@, [url |-> tab.url, title |-> tab.title])]
    IN [map |-> m2, nid |-> nid1]

\* faulty variant of MergeTabs: the loop ends at the first tab whose url is
\* missing or does not parse
RECURSIVE MergeTabsStopAtBad(_, _)
MergeTabsStopAtBad(st, tabs) ==
  IF tabs = <<>> THEN st
  ELSE IF ~Parses(Head(tabs).url) THEN st
  ELSE MergeTabsStopAtBad(MergeTab(st, Head(tabs)), Tail(tabs))

RECURSIVE MergeTabs(_, _)
MergeTabs(st, tabs) ==
  IF tabs = <<>> THEN st
  ELSE MergeTabs(MergeTab(st, Head(tabs)), Tail(tabs))

\* saveTabs up to its second await: the read of savedTabs resolves, the loop
\* runs, and chrome.storage.local.set is issued with the map's values
SaveTabsRead(tabs) ==
  /\ opCount < MaxOps
  /\ LET r == MergeTabs([map |-> LoadMap(<<>>, savedTabs), nid |-> nextId], tabs)
     IN /\ tasks' = Append(tasks, [kind |-> "saveTabs", pc |-> "setSavedTabs",
                                   tabs |-> tabs, value |-> MapValues(r.map)])
        /\ nextId' = r.nid
  /\ opCount' = opCount + 1
  /\ UNCHANGED <<hostVars, savedTabs, parentCategories, userSettings, now, completed, lastSweep>>

\* the set of saveTabs takes effect
SaveTabsWrite(i) ==
  /\ tasks[i].kind = "saveTabs"
  /\ savedTabs' = tasks[i].value
  /\ tasks' = RemoveAt(tasks, i)
  /\ UNCHANGED <<hostVars, parentCategories, userSettings, now, nextId, opCount, completed, lastSweep>>


(************************ src/unnamed/part_000 *****************************)
Urls == { UrlA1, UrlA2, UrlB1 }

NoDomain == [scheme |-> "", host |-> ""]

\* faulty variant of FilterUrls: every url of the same domain is dropped
FilterUrlsByDomain(urls, url) ==
  SelectSeq(urls, LAMBDA item : DomainOf(item.url) # DomainOf(url))

\* group.urls.filter((item) => item.url !== url)
FilterUrls(urls, url) == SelectSeq(urls, LAMBDA item : item.url # url)

\* the group ids handed to handleTabGroupRemoval, in the order of the map
RECURSIVE EmptiedGroupIds(_, _)
EmptiedGroupIds(groups, url) ==
  IF groups = <<>> THEN <<>>
  ELSE LET rest == EmptiedGroupIds(Tail(groups), url)
       IN IF Len(FilterUrls(Head(groups).urls, url)) = 0
          THEN <<Head(groups).id>> \o rest
          ELSE rest

\* faulty variant of RemoveUrlFromGroups: emptied groups are written back
RECURSIVE RemoveUrlKeepEmpty(_, _)
RemoveUrlKeepEmpty(groups, url) ==
  IF groups = <<>> THEN <<>>
  ELSE <<[Head(groups) EXCEPT !.urls = FilterUrls(@, url)]>>
         \o RemoveUrlKeepEmpty(Tail(groups), url)

\* savedTabs.map(...).filter(Boolean): updatedGroups
RECURSIVE RemoveUrlFromGroups(_, _)
RemoveUrlFromGroups(groups, url) ==
  IF groups = <<>> THEN <<>>
  ELSE LET updatedUrls == FilterUrls(Head(groups).urls, url)
           rest == RemoveUrlFromGroups(Tail(groups), url)
       IN IF Len(updatedUrls) = 0 THEN rest
          ELSE <<[Head(groups) EXCEPT !.urls = updatedUrls]>> \o rest

\* handleTabGroupRemoval(group.id) is not awaited: each call runs up to the
\* first await of removeFromParentCategories and stays suspended there
CascadeTasks(ids) ==
  [k \in 1..Len(ids) |->
     [kind |-> "removeFromParentCategories", pc |-> "getParentCategories",
      groupId |-> ids[k]]]

\* removeUrlFromStorage up to its second await: the read of savedTabs
\* resolves, the map starts one cascade per emptied group, the set is issued
RemoveUrlRead(url) ==
  /\ opCount < MaxOps
  /\ LET ids == EmptiedGroupIds(savedTabs, url)
     IN tasks' = (tasks \o CascadeTasks(ids)) \o
                 <<[kind |-> "removeUrlFromStorage", pc |-> "setSavedTabs",
                    url |-> url,
                    value |-> RemoveUrlFromGroups(savedTabs, url),
                    removed |-> Range(ids)]>>
  /\ opCount' = opCount + 1
  /\ UNCHANGED <<hostVars, savedTabs, parentCategories, userSettings, now, nextId,
                 completed, lastSweep>>

\* faulty variant of RemoveUrlWrite: the url is filtered out of the
\* collection stored at the time of the write, not of the one that was read
RemoveUrlWriteFresh(i) ==
  /\ tasks[i].kind = "removeUrlFromStorage"
  /\ savedTabs' = RemoveUrlFromGroups(savedTabs, tasks[i].url)
  /\ completed' = completed \cup
       { [op |-> "removeUrlFromStorage", groupId |-> g] : g \in tasks[i].removed }
  /\ tasks' = RemoveAt(tasks, i)
  /\ UNCHANGED <<hostVars, parentCategories, userSettings, now, nextId, opCount, lastSweep>>

\* the set of removeUrlFromStorage takes effect and the handler returns
RemoveUrlWrite(i) ==
  /\ tasks[i].kind = "removeUrlFromStorage"
  /\ savedTabs' = tasks[i].value
  /\ completed' = completed \cup
       { [op |-> "removeUrlFromStorage", groupId |-> g] : g \in tasks[i].removed }
  /\ tasks' = RemoveAt(tasks, i)
  /\ UNCHANGED <<hostVars, parentCategories, userSettings, now, nextId, opCount, lastSweep>>

\* faulty variant of StripGroupId: the domain name is pruned with the id
StripGroupIdAndName(category, groupId, domainName) ==
  [category EXCEPT
     !.domains = SelectSeq(@, LAMBDA id : id # groupId),
     !.domainNames = SelectSeq(@, LAMBDA d : d # domainName)]

\* { ...category, domains: category.domains.filter((id) => id !== groupId) }
StripGroupId(category, groupId, domainName) ==
  [category EXCEPT !.domains = SelectSeq(@, LAMBDA id : id # groupId)]

\* parentCategories.map(...): updatedCategories
UpdatedCategories(categories, groupId, domainName) ==
  [k \in 1..Len(categories) |-> StripGroupId(categories[k], groupId, domainName)]

\* savedTabs.find((group) => group.id === groupId)
HasGroupId(groups, groupId) == \E k \in 1..Len(groups) : groups[k].id = groupId

FindGroup(groups, groupId) ==
  groups[CHOOSE k \in 1..Len(groups) :
           /\ groups[k].id = groupId
           /\ \A j \in 1..(k - 1) : groups[j].id # groupId]

\* removeFromParentCategories: the read of parentCategories resolves
CascadeReadCategories(i) ==
  /\ tasks[i].kind = "removeFromParentCategories"
  /\ tasks[i].pc = "getParentCategories"
  /\ tasks' = [tasks EXCEPT ![i] =
       [kind |-> "removeFromParentCategories", pc |-> "getSavedTabs",
        groupId |-> tasks[i].groupId, categories |-> parentCategories]]
  /\ UNCHANGED <<hostVars, savedTabs, parentCategories, userSettings, now, nextId,
                 opCount, completed, lastSweep>>

\* removeFromParentCategories: the read of savedTabs resolves; the group is
\* looked up and either the function returns or the set is issued
CascadeReadTabs(i) ==
  /\ tasks[i].kind = "removeFromParentCategories"
  /\ tasks[i].pc = "getSavedTabs"
  /\ IF ~HasGroupId(savedTabs, tasks[i].groupId)
        \/ FindGroup(savedTabs, tasks[i].groupId).domain = NoDomain
     THEN tasks' = RemoveAt(tasks, i)
     ELSE tasks' = [tasks EXCEPT ![i] =
            [kind |-> "removeFromParentCategories", pc |-> "setParentCategories",
             groupId |-> tasks[i].groupId,
             categories |-> tasks[i].categories,
             value |-> UpdatedCategories(tasks[i].categories, tasks[i].groupId,
                         FindGroup(savedTabs, tasks[i].groupId).domain)]]
  /\ UNCHANGED <<hostVars, savedTabs, parentCategories, userSettings, now, nextId,
                 opCount, completed, lastSweep>>

\* removeFromParentCategories: the set of parentCategories takes effect
CascadeWrite(i) ==
  /\ tasks[i].kind = "removeFromParentCategories"
  /\ tasks[i].pc = "setParentCategories"
  /\ parentCategories' = tasks[i].value
  /\ tasks' = RemoveAt(tasks, i)
  /\ UNCHANGED <<hostVars, savedTabs, userSettings, now, nextId, opCount, completed, lastSweep>>

(*********************** expiration engine *********************************)
Minute == 60
Hour == 60 * Minute
Day == 24 * Hour

\* faulty variant of GetExpirationPeriodMs: 30sec is the default branch
GetExpirationPeriodDefault30(period) ==
  CASE period = "1min" -> Minute
    [] period = "1hour" -> Hour
    [] period = "1day" -> Day
    [] period = "7days" -> 7 * Day
    [] period = "14days" -> 14 * Day
    [] period = "30days" -> 30 * Day
    [] period = "180days" -> 180 * Day
    [] period = "365days" -> 365 * Day
    [] OTHER -> 30

\* getExpirationPeriodMs, in seconds
GetExpirationPeriodMs(period) ==
  CASE period = "30sec" -> 30
    [] period = "1min" -> Minute
    [] period = "1hour" -> Hour
    [] period = "1day" -> Day
    [] period = "7days" -> 7 * Day
    [] period = "14days" -> 14 * Day
    [] period = "30days" -> 30 * Day
    [] period = "180days" -> 180 * Day
    [] period = "365days" -> 365 * Day
    [] OTHER -> Null

\* data.userSettings || { autoDeletePeriod: "never" }; a stored record
\* without the field reads as "" (undefined)
SettingsOrDefault(stored) ==
  IF stored.present THEN stored
  ELSE [present |-> TRUE, autoDeletePeriod |-> "never"]

\* !settings.autoDeletePeriod || settings.autoDeletePeriod === "never"
AutoDeleteDisabled(settings) ==
  settings.autoDeletePeriod = "" \/ settings.autoDeletePeriod = "never"

\* faulty variant of MissingSavedAt: an absent savedAt is not recognised
MissingSavedAtNever(group) == FALSE

\* !group.savedAt
MissingSavedAt(group) == group.savedAt = NoSavedAt \/ group.savedAt = 0

\* faulty variant of IsGroupExpired: the cutoff itself counts as expired
IsGroupExpiredOrEqual(group, cutoffTime) == group.savedAt <= cutoffTime

\* group.savedAt < cutoffTime
IsGroupExpired(group, cutoffTime) == group.savedAt < cutoffTime

\* faulty variant of SweepFilter: only the first expired group is dropped
RECURSIVE SweepFilterFirstOnly(_, _, _)
SweepFilterFirstOnly(groups, currentTime, cutoffTime) ==
  IF groups = <<>> THEN <<>>
  ELSE IF MissingSavedAt(Head(groups))
       THEN <<[Head(groups) EXCEPT !.savedAt = currentTime]>>
              \o SweepFilterFirstOnly(Tail(groups), currentTime, cutoffTime)
       ELSE IF IsGroupExpired(Head(groups), cutoffTime) THEN Tail(groups)
       ELSE <<Head(groups)>>
              \o SweepFilterFirstOnly(Tail(groups), currentTime, cutoffTime)

\* savedTabs.filter(...): updatedTabs, with savedAt set on the groups that
\* had none
RECURSIVE SweepFilter(_, _, _)
SweepFilter(groups, currentTime, cutoffTime) ==
  IF groups = <<>> THEN <<>>
  ELSE LET rest == SweepFilter(Tail(groups), currentTime, cutoffTime)
       IN IF MissingSavedAt(Head(groups))
          THEN <<[Head(groups) EXCEPT !.savedAt = currentTime]>> \o rest
          ELSE IF IsGroupExpired(Head(groups), cutoffTime) THEN rest
          ELSE <<Head(groups)>> \o rest

SweepTask == [kind |-> "checkAndRemoveExpiredTabs", pc |-> "getUserSettings"]

\* checkAndRemoveExpiredTabs is called (alarm, timer or message) and suspends
\* on the read of userSettings
CheckStart ==
  /\ opCount < MaxOps
  /\ tasks' = Append(tasks, SweepTask)
  /\ opCount' = opCount + 1
  /\ UNCHANGED <<hostVars, savedTabs, parentCategories, userSettings, now, nextId,
                 completed, lastSweep>>

\* the read of userSettings resolves: return when retention is off,
\* otherwise fix currentTime and cutoffTime and read savedTabs
CheckReadSettings(i) ==
  /\ tasks[i].kind = "checkAndRemoveExpiredTabs"
  /\ tasks[i].pc = "getUserSettings"
  /\ LET settings == SettingsOrDefault(userSettings)
         expirationPeriod == GetExpirationPeriodMs(settings.autoDeletePeriod)
     IN IF AutoDeleteDisabled(settings)
           \/ expirationPeriod = Null \/ expirationPeriod = 0
        THEN tasks' = RemoveAt(tasks, i)
        ELSE tasks' = [tasks EXCEPT ![i] =
               [kind |-> "checkAndRemoveExpiredTabs", pc |-> "getSavedTabs",
                currentTime |-> now, cutoffTime |-> now - expirationPeriod]]
  /\ UNCHANGED <<hostVars, savedTabs, parentCategories, userSettings, now, nextId,
                 opCount, completed, lastSweep>>

\* the read of savedTabs resolves: filter, and issue the set only when the
\* number of groups changed
CheckReadTabs(i) ==
  /\ tasks[i].kind = "checkAndRemoveExpiredTabs"
  /\ tasks[i].pc = "getSavedTabs"
  /\ IF Len(savedTabs) = 0
     THEN /\ tasks' = RemoveAt(tasks, i)
          /\ UNCHANGED lastSweep
     ELSE LET updatedTabs ==
                SweepFilter(savedTabs, tasks[i].currentTime, tasks[i].cutoffTime)
          IN /\ lastSweep' = [ran |-> TRUE, snapshot |-> savedTabs,
                              kept |-> updatedTabs,
                              currentTime |-> tasks[i].currentTime,
                              cutoffTime |-> tasks[i].cutoffTime]
             /\ IF Len(updatedTabs) # Len(savedTabs)
                THEN tasks' = [tasks EXCEPT ![i] =
                       [kind |-> "checkAndRemoveExpiredTabs", pc |-> "setSavedTabs",
                        value |-> updatedTabs,
                        evicted |-> { g.id : g \in Range(savedTabs) }
                                      \ { g.id : g \in Range(updatedTabs) }]]
                ELSE tasks' = RemoveAt(tasks, i)
  /\ UNCHANGED <<hostVars, savedTabs, parentCategories, userSettings, now, nextId,
                 opCount, completed>>

\* the set of the pruned collection takes effect
CheckWrite(i) ==
  /\ tasks[i].kind = "checkAndRemoveExpiredTabs"
  /\ tasks[i].pc = "setSavedTabs"
  /\ savedTabs' = tasks[i].value
  /\ completed' = completed \cup
       { [op |-> "checkAndRemoveExpiredTabs", groupId |-> g] : g \in tasks[i].evicted }
  /\ tasks' = RemoveAt(tasks, i)
  /\ UNCHANGED <<hostVars, parentCategories, userSettings, now, nextId, opCount, lastSweep>>

Periods == { "30sec", "1min", "" }

\* the timestamp updateTabTimestamps(period) stamps
TimestampFor(period, t) ==
  IF period = "30sec" THEN t - 40
  ELSE IF period = "1min" THEN t - 70
  ELSE t

\* savedTabs.map((group) => ({ ...group, savedAt: timestamp }))
StampSaveTime(groups, timestamp) ==
  [k \in 1..Len(groups) |-> [groups[k] EXCEPT !.savedAt = timestamp]]

\* updateTabTimestamps up to its second await
UpdateRead(period) ==
  /\ opCount < MaxOps
  /\ opCount' = opCount + 1
  /\ IF Len(savedTabs) = 0
     THEN UNCHANGED tasks
     ELSE tasks' = Append(tasks,
            [kind |-> "updateTabTimestamps", pc |-> "setSavedTabs",
             value |-> StampSaveTime(savedTabs, TimestampFor(period, now))])
  /\ UNCHANGED <<hostVars, savedTabs, parentCategories, userSettings, now, nextId,
                 completed, lastSweep>>

\* the set takes effect; checkAndRemoveExpiredTabs() is called without await
UpdateWrite(i) ==
  /\ tasks[i].kind = "updateTabTimestamps"
  /\ savedTabs' = tasks[i].value
  /\ tasks' = Append(RemoveAt(tasks, i), SweepTask)
  /\ UNCHANGED <<hostVars, parentCategories, userSettings, now, nextId, opCount,
                 completed, lastSweep>>

\* time passes
Tick ==
  /\ now < Now0 + MaxTicks * TickStep
  /\ now' = now + TickStep
  /\ UNCHANGED <<hostVars, savedTabs, parentCategories, userSettings, tasks, nextId,
                 opCount, completed, lastSweep>>

(************************* initial states **********************************)
Group(id, u, t, savedAt) ==
  [id |-> id, domain |-> DomainOf(u), urls |-> <<[url |-> u, title |-> t]>>,
   savedAt |-> savedAt]

Settings(period) == [present |-> TRUE, autoDeletePeriod |-> period]

\* nothing stored under "userSettings"
NoSettings == [present |-> FALSE, autoDeletePeriod |-> ""]

Category(id, name, domains, domainNames) ==
  [id |-> id, name |-> name, domains |-> domains, domainNames |-> domainNames]

InitCategories ==
  { <<>>,
    <<Category("c1", "Work", <<1, 2>>, <<DomainOf(UrlA1), DomainOf(UrlB1)>>),
      Category("c2", "Later", <<2>>, <<DomainOf(UrlB1)>>)>> }

InitSavedTabs ==
  { <<>>,
    <<Group(1, UrlA1, "A", Now0 - 40)>>,
    <<Group(1, UrlA1, "A", Now0 - 40), Group(2, UrlB1, "B", NoSavedAt)>> }

InitSettings == { NoSettings, Settings("30sec"), Settings("1min") }

NoSweep == [ran |-> FALSE, snapshot |-> <<>>, kept |-> <<>>,
            currentTime |-> 0, cutoffTime |-> 0]

\* let draggedUrlInfo = null
NoDrag == [set |-> FALSE, url |-> NoUrl, timestamp |-> 0, processed |-> FALSE]

\* chrome.alarms before setupExpiredTabsCheckAlarm has run
Scheduler(api) ==
  [api |-> api, alarm |-> FALSE, listener |-> FALSE, setup |-> FALSE,
   checks |-> 0]

\* the background script with no drag recorded, no timer pending and no
\* message received
HostInit ==
  /\ draggedUrlInfo = NoDrag
  /\ timers = <<>>
  /\ scheduler = Scheduler(TRUE)
  /\ responses = <<>>

Init ==
  /\ savedTabs \in InitSavedTabs
  /\ parentCategories \in InitCategories
  /\ userSettings \in InitSettings
  /\ now = Now0
  /\ tasks = <<>>
  /\ nextId = 3
  /\ opCount = 0
  /\ completed = {}
  /\ lastSweep = NoSweep
  /\ HostInit

Next ==
  \/ \E tabs \in Batches : SaveTabsRead(tabs)
  \/ \E i \in 1..Len(tasks) : SaveTabsWrite(i)
  \/ \E url \in Urls : RemoveUrlRead(url)
  \/ \E i \in 1..Len(tasks) : RemoveUrlWrite(i)
  \/ \E i \in 1..Len(tasks) : CascadeReadCategories(i)
  \/ \E i \in 1..Len(tasks) : CascadeReadTabs(i)
  \/ \E i \in 1..Len(tasks) : CascadeWrite(i)
  \/ CheckStart
  \/ \E i \in 1..Len(tasks) : CheckReadSettings(i)
  \/ \E i \in 1..Len(tasks) : CheckReadTabs(i)
  \/ \E i \in 1..Len(tasks) : CheckWrite(i)
  \/ \E period \in Periods : UpdateRead(period)
  \/ \E i \in 1..Len(tasks) : UpdateWrite(i)
  \/ Tick

Spec == Init /\ [][Next]_vars

(******************* the expiration engine on its own **********************)
FiniteLabels ==
  { "30sec", "1min", "1hour", "1day", "7days", "14days", "30days", "180days",
    "365days" }

\* every stored form of the retention setting: nothing stored, a record
\* without autoDeletePeriod, "never", a label the switch does not list, and
\* the nine labels it lists
SweepSettings ==
  { NoSettings, Settings(""), Settings("never"), Settings("2weeks") }
  \cup { Settings(l) : l \in FiniteLabels }

\* ages on both sides of every label's cutoff
SweepAges ==
  { 0, 40 } \cup { GetExpirationPeriodMs(l) : l \in FiniteLabels }
            \cup { GetExpirationPeriodMs(l) + 1 : l \in FiniteLabels }

SweepSavedAt == { NoSavedAt } \cup { Now0 - a : a \in SweepAges }

SweepSavedTabs ==
  { <<>> }
  \cup { <<Group(1, UrlA1, "A", s)>> : s \in SweepSavedAt }
  \cup { <<Group(1, UrlA1, "A", s1), Group(2, UrlB1, "B", s2)>> :
           s1 \in SweepSavedAt, s2 \in SweepSavedAt }

InitSweep ==
  /\ savedTabs \in SweepSavedTabs
  /\ parentCategories =
       <<Category("c1", "Work", <<1, 2>>, <<DomainOf(UrlA1), DomainOf(UrlB1)>>)>>
  /\ userSettings \in SweepSettings
  /\ now = Now0
  /\ tasks = <<>>
  /\ nextId = 3
  /\ opCount = 0
  /\ completed = {}
  /\ lastSweep = NoSweep
  /\ HostInit

NextSweep ==
  \/ CheckStart
  \/ \E i \in 1..Len(tasks) : CheckReadSettings(i)
  \/ \E i \in 1..Len(tasks) : CheckReadTabs(i)
  \/ \E i \in 1..Len(tasks) : CheckWrite(i)
  \/ Tick

SpecSweep == InitSweep /\ [][NextSweep]_vars

(******************* removeUrlFromStorage, one call at a time **************)
\* a handler other than a cascade is suspended
HandlerInFlight ==
  \E i \in 1..Len(tasks) : tasks[i].kind # "removeFromParentCategories"

\* removeUrlFromStorage(url) called after the previous call has returned
RemoveUrlInSequence(url) == ~HandlerInFlight /\ RemoveUrlRead(url)

Group2(id, u1, t1, u2, t2, savedAt) ==
  [id |-> id, domain |-> DomainOf(u1),
   urls |-> <<[url |-> u1, title |-> t1], [url |-> u2, title |-> t2]>>,
   savedAt |-> savedAt]

RemoveSavedTabs ==
  { <<>>,
    <<Group(1, UrlA1, "A", Now0 - 40)>>,
    <<Group2(1, UrlA1, "A", UrlA2, "A2", Now0 - 40)>>,
    <<Group(1, UrlA1, "A", Now0 - 40), Group(2, UrlB1, "B", NoSavedAt)>>,
    <<Group2(1, UrlA1, "A", UrlA2, "A2", Now0 - 40),
      Group(2, UrlB1, "B", NoSavedAt)>> }

InitRemove ==
  /\ savedTabs \in RemoveSavedTabs
  /\ parentCategories \in InitCategories
  /\ userSettings = NoSettings
  /\ now = Now0
  /\ tasks = <<>>
  /\ nextId = 3
  /\ opCount = 0
  /\ completed = {}
  /\ lastSweep = NoSweep
  /\ HostInit

NextRemove ==
  \/ \E url \in Urls : RemoveUrlInSequence(url)
  \/ \E i \in 1..Len(tasks) : RemoveUrlWrite(i)
  \/ \E i \in 1..Len(tasks) : CascadeReadCategories(i)
  \/ \E i \in 1..Len(tasks) : CascadeReadTabs(i)
  \/ \E i \in 1..Len(tasks) : CascadeWrite(i)

SpecRemove == InitRemove /\ [][NextRemove]_vars

(************************** saveTabs on its own ****************************)
MergeBatch == 3

\* tabs of every kind the loop of saveTabs distinguishes: two urls of one
\* domain, a url of another domain, a chrome:// page, a page of the extension,
\* a string that is no url, and a tab without url
MergeTabSet ==
  { Tab(UrlA1, "A"), Tab(UrlA2, "A2"), Tab(UrlB1, "B"), Tab(UrlChrome, "S"),
    Tab(UrlExt, "E"), Tab(UrlBad, "X"), Tab(NoUrl, "N") }

MergeBatches == SeqsUpTo(MergeTabSet, MergeBatch) \ { <<>> }

InitMerge ==
  /\ savedTabs \in InitSavedTabs
  /\ parentCategories = <<>>
  /\ userSettings = NoSettings
  /\ now = Now0
  /\ tasks = <<>>
  /\ nextId = 3
  /\ opCount = 0
  /\ completed = {}
  /\ lastSweep = NoSweep
  /\ HostInit

NextMerge ==
  \/ \E tabs \in MergeBatches : SaveTabsRead(tabs)
  \/ \E i \in 1..Len(tasks) : SaveTabsWrite(i)

SpecMerge == InitMerge /\ [][NextMerge]_vars

(************************ the message listener *****************************)
\* setTimeout(..., 10000), in seconds
DragTimeout == 10

\* the fields a message may carry; a message carries its action and the
\* fields its handler reads
BlankMessage ==
  [action |-> "", url |-> NoUrl, fromExternal |-> FALSE,
   updateTimestamps |-> FALSE, period |-> "", savedAt |-> NoSavedAt,
   autoDeletePeriod |-> ""]

\* what sendResponse is given: a status, or the answer of
\* calculateTimeRemaining (null = { timeRemaining: null })
NoAnswer ==
  [status |-> "", null |-> TRUE, timeRemaining |-> 0, expirationTime |-> 0]

Answer(status) == [NoAnswer EXCEPT !.status = status]

\* the listener is entered with a message, at time now
Received(message, answered, answer) ==
  Append(responses, [message |-> message, at |-> now,
                     answered |-> answered, answer |-> answer])

\* sendResponse(answer) for message m
SendResponse(m, answer) ==
  [responses EXCEPT ![m] = [@ EXCEPT !.answered = TRUE, !.answer = answer]]

\* the promise chain of message m, suspended in function fn at pc
MsgTask(m, fn, pc) ==
  [kind |-> "onMessage", msg |-> m, fn |-> fn, pc |-> pc, value |-> <<>>,
   ids |-> {}, currentTime |-> 0, cutoffTime |-> 0]

IsMsgTask(i, fn, pc) ==
  /\ tasks[i].kind = "onMessage"
  /\ tasks[i].fn = fn
  /\ tasks[i].pc = pc

\* no timer is overdue: a timer whose delay has passed has run its callback,
\* one that is due at this instant may still be queued
TimersFired == \A k \in 1..Len(timers) : timers[k].due >= now

\* { ...defaultSettings, ...(userSettings || {}) }.removeTabAfterOpen
RemoveTabAfterOpen(stored) ==
  IF stored.present /\ "removeTabAfterOpen" \in DOMAIN stored
  THEN stored.removeTabAfterOpen
  ELSE TRUE

\* message urlDragStarted: the record is stored, the timeout is set, and the
\* message is answered
OnUrlDragStarted(url) ==
  /\ opCount < MaxOps
  /\ TimersFired
  /\ opCount' = opCount + 1
  /\ draggedUrlInfo' = [set |-> TRUE, url |-> url, timestamp |-> now,
                        processed |-> FALSE]
  /\ timers' = Append(timers, [callback |-> "dragTimeout",
                               due |-> now + DragTimeout])
  /\ responses' = Received([BlankMessage EXCEPT !.action = "urlDragStarted",
                                                !.url = url],
                           TRUE, Answer("ok"))
  /\ UNCHANGED <<savedTabs, parentCategories, userSettings, now, tasks, nextId,
                 completed, lastSweep, scheduler>>

\* the callback of the timeout set by urlDragStarted
DragTimeoutFires(k) ==
  /\ timers[k].callback = "dragTimeout"
  /\ timers[k].due <= now
  /\ timers' = RemoveAt(timers, k)
  /\ IF /\ draggedUrlInfo.set
        /\ draggedUrlInfo.timestamp = now
        /\ ~draggedUrlInfo.processed
     THEN draggedUrlInfo' = NoDrag
     ELSE UNCHANGED draggedUrlInfo
  /\ UNCHANGED <<savedTabs, parentCategories, userSettings, now, tasks, nextId,
                 opCount, completed, lastSweep, scheduler, responses>>

\* message urlDropped: answered at once for an internal drop, otherwise
\* getUserSettings() is called
OnUrlDropped(url, fromExternal) ==
  /\ opCount < MaxOps
  /\ opCount' = opCount + 1
  /\ LET message == [BlankMessage EXCEPT !.action = "urlDropped", !.url = url,
                                         !.fromExternal = fromExternal]
     IN IF fromExternal
        THEN /\ responses' = Received(message, FALSE, NoAnswer)
             /\ tasks' = Append(tasks, MsgTask(Len(responses) + 1,
                                               "getUserSettings", "getUserSettings"))
        ELSE /\ responses' = Received(message, TRUE, Answer("internal_operation"))
             /\ UNCHANGED tasks
  /\ UNCHANGED <<savedTabs, parentCategories, userSettings, now, nextId,
                 completed, lastSweep, draggedUrlInfo, timers, scheduler>>

\* urlDropped: getUserSettings() settles.  The then-callback removes the url
\* or answers "skipped"; a rejection has no handler and nothing is answered
UrlDroppedSettings(i, ok) ==
  /\ IsMsgTask(i, "getUserSettings", "getUserSettings")
  /\ IF ~ok
     THEN /\ tasks' = RemoveAt(tasks, i)
          /\ UNCHANGED responses
     ELSE IF RemoveTabAfterOpen(userSettings)
     THEN /\ tasks' = [tasks EXCEPT ![i] =
                         MsgTask(tasks[i].msg, "removeUrlFromStorage", "getSavedTabs")]
          /\ UNCHANGED responses
     ELSE /\ tasks' = RemoveAt(tasks, i)
          /\ responses' = SendResponse(tasks[i].msg, Answer("skipped"))
  /\ UNCHANGED <<savedTabs, parentCategories, userSettings, now, nextId,
                 opCount, completed, lastSweep, draggedUrlInfo, timers, scheduler>>

\* message removeUrlFromStorage
OnRemoveUrl(url) ==
  /\ opCount < MaxOps
  /\ opCount' = opCount + 1
  /\ responses' = Received([BlankMessage EXCEPT !.action = "removeUrlFromStorage",
                                                !.url = url],
                           FALSE, NoAnswer)
  /\ tasks' = Append(tasks, MsgTask(Len(responses) + 1,
                                    "removeUrlFromStorage", "getSavedTabs"))
  /\ UNCHANGED <<savedTabs, parentCategories, userSettings, now, nextId,
                 completed, lastSweep, draggedUrlInfo, timers, scheduler>>

\* removeUrlFromStorage called for a message: the read of savedTabs settles.
\* A rejection is rethrown and answered by the catch of the caller
MsgRemoveUrlRead(i, ok) ==
  /\ IsMsgTask(i, "removeUrlFromStorage", "getSavedTabs")
  /\ IF ~ok
     THEN /\ tasks' = RemoveAt(tasks, i)
          /\ responses' = SendResponse(tasks[i].msg, Answer("error"))
     ELSE LET url == responses[tasks[i].msg].message.url
              ids == EmptiedGroupIds(savedTabs, url)
          IN /\ tasks' =
                  [tasks EXCEPT ![i] =
                     [MsgTask(tasks[i].msg, "removeUrlFromStorage", "setSavedTabs")
                        EXCEPT !.value = RemoveUrlFromGroups(savedTabs, url),
                               !.ids = Range(ids)]]
                  \o CascadeTasks(ids)
             /\ UNCHANGED responses
  /\ UNCHANGED <<savedTabs, parentCategories, userSettings, now, nextId,
                 opCount, completed, lastSweep, draggedUrlInfo, timers, scheduler>>

\* the set of removeUrlFromStorage settles and the message is answered
MsgRemoveUrlWrite(i, ok) ==
  /\ IsMsgTask(i, "removeUrlFromStorage", "setSavedTabs")
  /\ tasks' = RemoveAt(tasks, i)
  /\ IF ok
     THEN /\ savedTabs' = tasks[i].value
          /\ completed' = completed \cup
               { [op |-> "removeUrlFromStorage", groupId |-> g] : g \in tasks[i].ids }
          /\ responses' = SendResponse(tasks[i].msg, Answer("removed"))
     ELSE /\ UNCHANGED <<savedTabs, completed>>
          /\ responses' = SendResponse(tasks[i].msg, Answer("error"))
  /\ UNCHANGED <<parentCategories, userSettings, now, nextId, opCount,
                 lastSweep, draggedUrlInfo, timers, scheduler>>

\* message calculateTimeRemaining, answered at time t
CalculateTimeRemainingReversed(savedAt, autoDeletePeriod, t) ==
  IF autoDeletePeriod = "" \/ autoDeletePeriod = "never"
     \/ savedAt = NoSavedAt \/ savedAt = 0
  THEN NoAnswer
  ELSE LET expirationMs == GetExpirationPeriodMs(autoDeletePeriod)
       IN IF expirationMs = Null \/ expirationMs = 0 THEN NoAnswer
          ELSE [status |-> "", null |-> FALSE,
                timeRemaining |-> t - (savedAt + expirationMs),
                expirationTime |-> savedAt + expirationMs]

CalculateTimeRemaining(savedAt, autoDeletePeriod, t) ==
  IF autoDeletePeriod = "" \/ autoDeletePeriod = "never"
     \/ savedAt = NoSavedAt \/ savedAt = 0
  THEN NoAnswer
  ELSE LET expirationMs == GetExpirationPeriodMs(autoDeletePeriod)
       IN IF expirationMs = Null \/ expirationMs = 0 THEN NoAnswer
          ELSE [status |-> "", null |-> FALSE,
                timeRemaining |-> (savedAt + expirationMs) - t,
                expirationTime |-> savedAt + expirationMs]

OnCalculateTimeRemaining(savedAt, autoDeletePeriod) ==
  /\ opCount < MaxOps
  /\ opCount' = opCount + 1
  /\ responses' =
       Received([BlankMessage EXCEPT !.action = "calculateTimeRemaining",
                                     !.savedAt = savedAt,
                                     !.autoDeletePeriod = autoDeletePeriod],
                TRUE, CalculateTimeRemaining(savedAt, autoDeletePeriod, now))
  /\ UNCHANGED <<savedTabs, parentCategories, userSettings, now, tasks, nextId,
                 completed, lastSweep, draggedUrlInfo, timers, scheduler>>

\* message checkExpiredTabs: updateTabTimestamps(period) first when asked,
\* then checkAndRemoveExpiredTabs(true)
OnCheckExpiredTabs(updateTimestamps, period) ==
  /\ opCount < MaxOps
  /\ opCount' = opCount + 1
  /\ responses' =
       Received([BlankMessage EXCEPT !.action = "checkExpiredTabs",
                                     !.updateTimestamps = updateTimestamps,
                                     !.period = period],
                FALSE, NoAnswer)
  /\ tasks' = Append(tasks,
       IF updateTimestamps
       THEN MsgTask(Len(responses) + 1, "updateTabTimestamps", "getSavedTabs")
       ELSE MsgTask(Len(responses) + 1, "checkAndRemoveExpiredTabs",
                    "getUserSettings"))
  /\ UNCHANGED <<savedTabs, parentCategories, userSettings, now, nextId,
                 completed, lastSweep, draggedUrlInfo, timers, scheduler>>

\* message updateTabTimestamps
OnUpdateTabTimestamps(period) ==
  /\ opCount < MaxOps
  /\ opCount' = opCount + 1
  /\ responses' =
       Received([BlankMessage EXCEPT !.action = "updateTabTimestamps",
                                     !.period = period],
                FALSE, NoAnswer)
  /\ tasks' = Append(tasks, MsgTask(Len(responses) + 1,
                                    "updateTabTimestamps", "getSavedTabs"))
  /\ UNCHANGED <<savedTabs, parentCategories, userSettings, now, nextId,
                 completed, lastSweep, draggedUrlInfo, timers, scheduler>>

\* updateTabTimestamps has resolved for task i of the task list ts: message
\* updateTabTimestamps is answered, message checkExpiredTabs goes on to
\* checkAndRemoveExpiredTabs(true)
UpdateResolved(i, ts) ==
  IF responses[tasks[i].msg].message.action = "updateTabTimestamps"
  THEN /\ tasks' = RemoveAt(ts, i)
       /\ responses' = SendResponse(tasks[i].msg, Answer("completed"))
  ELSE /\ tasks' = [ts EXCEPT ![i] =
                      MsgTask(tasks[i].msg, "checkAndRemoveExpiredTabs",
                              "getUserSettings")]
       /\ UNCHANGED responses

\* updateTabTimestamps called for a message: the read of savedTabs settles
MsgUpdateRead(i, ok) ==
  /\ IsMsgTask(i, "updateTabTimestamps", "getSavedTabs")
  /\ IF ~ok
     THEN /\ tasks' = RemoveAt(tasks, i)
          /\ responses' = SendResponse(tasks[i].msg, Answer("error"))
     ELSE IF Len(savedTabs) = 0
     THEN UpdateResolved(i, tasks)
     ELSE /\ tasks' =
               [tasks EXCEPT ![i] =
                  [MsgTask(tasks[i].msg, "updateTabTimestamps", "setSavedTabs")
                     EXCEPT !.value =
                       StampSaveTime(savedTabs,
                         TimestampFor(responses[tasks[i].msg].message.period, now))]]
          /\ UNCHANGED responses
  /\ UNCHANGED <<savedTabs, parentCategories, userSettings, now, nextId,
                 opCount, completed, lastSweep, draggedUrlInfo, timers, scheduler>>

\* the set of updateTabTimestamps settles; on success a sweep is started
\* without await
MsgUpdateWrite(i, ok) ==
  /\ IsMsgTask(i, "updateTabTimestamps", "setSavedTabs")
  /\ IF ok
     THEN /\ savedTabs' = tasks[i].value
          /\ UpdateResolved(i, Append(tasks, SweepTask))
     ELSE /\ UNCHANGED savedTabs
          /\ tasks' = RemoveAt(tasks, i)
          /\ responses' = SendResponse(tasks[i].msg, Answer("error"))
  /\ UNCHANGED <<parentCategories, userSettings, now, nextId, opCount,
                 completed, lastSweep, draggedUrlInfo, timers, scheduler>>

\* checkAndRemoveExpiredTabs(true) has resolved: checkExpiredTabs is answered
CheckResolved(i) ==
  /\ tasks' = RemoveAt(tasks, i)
  /\ responses' = SendResponse(tasks[i].msg, Answer("completed"))

\* checkAndRemoveExpiredTabs called for a message: the read of userSettings
\* settles; a rejection is caught inside the function
MsgCheckReadSettings(i, ok) ==
  /\ IsMsgTask(i, "checkAndRemoveExpiredTabs", "getUserSettings")
  /\ LET settings == SettingsOrDefault(userSettings)
         expirationPeriod == GetExpirationPeriodMs(settings.autoDeletePeriod)
     IN IF ~ok \/ AutoDeleteDisabled(settings)
           \/ expirationPeriod = Null \/ expirationPeriod = 0
        THEN CheckResolved(i)
        ELSE /\ tasks' =
                  [tasks EXCEPT ![i] =
                     [MsgTask(tasks[i].msg, "checkAndRemoveExpiredTabs",
                              "getSavedTabs")
                        EXCEPT !.currentTime = now,
                               !.cutoffTime = now - expirationPeriod]]
             /\ UNCHANGED responses
  /\ UNCHANGED <<savedTabs, parentCategories, userSettings, now, nextId,
                 opCount, completed, lastSweep, draggedUrlInfo, timers, scheduler>>

\* the read of savedTabs settles
MsgCheckReadTabs(i, ok) ==
  /\ IsMsgTask(i, "checkAndRemoveExpiredTabs", "getSavedTabs")
  /\ IF ~ok \/ Len(savedTabs) = 0
     THEN /\ CheckResolved(i)
          /\ UNCHANGED lastSweep
     ELSE LET updatedTabs ==
                SweepFilter(savedTabs, tasks[i].currentTime, tasks[i].cutoffTime)
          IN /\ lastSweep' = [ran |-> TRUE, snapshot |-> savedTabs,
                              kept |-> updatedTabs,
                              currentTime |-> tasks[i].currentTime,
                              cutoffTime |-> tasks[i].cutoffTime]
             /\ IF Len(updatedTabs) # Len(savedTabs)
                THEN /\ tasks' =
                          [tasks EXCEPT ![i] =
                             [MsgTask(tasks[i].msg, "checkAndRemoveExpiredTabs",
                                      "setSavedTabs")
                                EXCEPT !.value = updatedTabs,
                                       !.ids = { g.id : g \in Range(savedTabs) }
                                                 \ { g.id : g \in Range(updatedTabs) }]]
                     /\ UNCHANGED responses
                ELSE CheckResolved(i)
  /\ UNCHANGED <<savedTabs, parentCategories, userSettings, now, nextId,
                 opCount, completed, draggedUrlInfo, timers, scheduler>>

\* the set of the pruned collection settles
MsgCheckWrite(i, ok) ==
  /\ IsMsgTask(i, "checkAndRemoveExpiredTabs", "setSavedTabs")
  /\ CheckResolved(i)
  /\ IF ok
     THEN /\ savedTabs' = tasks[i].value
          /\ completed' = completed \cup
               { [op |-> "checkAndRemoveExpiredTabs", groupId |-> g] :
                   g \in tasks[i].ids }
     ELSE UNCHANGED <<savedTabs, completed>>
  /\ UNCHANGED <<parentCategories, userSettings, now, nextId, opCount,
                 lastSweep, draggedUrlInfo, timers, scheduler>>

\* message getAlarmStatus: chrome.alarms.get is called; without chrome.alarms
\* the call throws inside the listener
OnGetAlarmStatus ==
  /\ opCount < MaxOps
  /\ opCount' = opCount + 1
  /\ responses' = Received([BlankMessage EXCEPT !.action = "getAlarmStatus"],
                           FALSE, NoAnswer)
  /\ IF scheduler.api
     THEN tasks' = Append(tasks, MsgTask(Len(responses) + 1, "alarms.get",
                                         "callback"))
     ELSE UNCHANGED tasks
  /\ UNCHANGED <<savedTabs, parentCategories, userSettings, now, nextId,
                 completed, lastSweep, draggedUrlInfo, timers, scheduler>>

\* the callback of chrome.alarms.get answers the message
AlarmStatusCallback(i) ==
  /\ IsMsgTask(i, "alarms.get", "callback")
  /\ tasks' = RemoveAt(tasks, i)
  /\ responses' = SendResponse(tasks[i].msg,
       Answer(IF scheduler.alarm THEN "exists" ELSE "no alarm"))
  /\ UNCHANGED <<savedTabs, parentCategories, userSettings, now, nextId,
                 opCount, completed, lastSweep, draggedUrlInfo, timers, scheduler>>

SettingsKeepTab ==
  [present |-> TRUE, autoDeletePeriod |-> "30sec", removeTabAfterOpen |-> FALSE]

InitMsg ==
  /\ savedTabs \in InitSavedTabs
  /\ parentCategories =
       <<Category("c1", "Work", <<1, 2>>, <<DomainOf(UrlA1), DomainOf(UrlB1)>>)>>
  /\ userSettings \in { NoSettings, Settings("30sec"), SettingsKeepTab }
  /\ now = Now0
  /\ tasks = <<>>
  /\ nextId = 3
  /\ opCount = 0
  /\ completed = {}
  /\ lastSweep = NoSweep
  /\ draggedUrlInfo = NoDrag
  /\ timers = <<>>
  /\ scheduler \in { Scheduler(FALSE),
                     [Scheduler(TRUE) EXCEPT !.alarm = TRUE, !.listener = TRUE,
                                             !.setup = TRUE] }
  /\ responses = <<>>

MsgUrls == { UrlA1, UrlB1 }

NextMsg ==
  \/ \E url \in MsgUrls : OnUrlDragStarted(url)
  \/ \E url \in MsgUrls, fromExternal \in BOOLEAN : OnUrlDropped(url, fromExternal)
  \/ \E i \in 1..Len(tasks), ok \in BOOLEAN : UrlDroppedSettings(i, ok)
  \/ \E url \in MsgUrls : OnRemoveUrl(url)
  \/ \E i \in 1..Len(tasks), ok \in BOOLEAN : MsgRemoveUrlRead(i, ok)
  \/ \E i \in 1..Len(tasks), ok \in BOOLEAN : MsgRemoveUrlWrite(i, ok)
  \/ \E savedAt \in { NoSavedAt, Now0 - 40 }, period \in Periods :
       OnCalculateTimeRemaining(savedAt, period)
  \/ \E updateTimestamps \in BOOLEAN, period \in Periods :
       OnCheckExpiredTabs(updateTimestamps, period)
  \/ \E period \in Periods : OnUpdateTabTimestamps(period)
  \/ \E i \in 1..Len(tasks), ok \in BOOLEAN : MsgUpdateRead(i, ok)
  \/ \E i \in 1..Len(tasks), ok \in BOOLEAN : MsgUpdateWrite(i, ok)
  \/ \E i \in 1..Len(tasks), ok \in BOOLEAN : MsgCheckReadSettings(i, ok)
  \/ \E i \in 1..Len(tasks), ok \in BOOLEAN : MsgCheckReadTabs(i, ok)
  \/ \E i \in 1..Len(tasks), ok \in BOOLEAN : MsgCheckWrite(i, ok)
  \/ OnGetAlarmStatus
  \/ \E i \in 1..Len(tasks) : AlarmStatusCallback(i)
  \/ \E i \in 1..Len(tasks) : CascadeReadCategories(i)
  \/ \E i \in 1..Len(tasks) : CascadeReadTabs(i)
  \/ \E i \in 1..Len(tasks) : CascadeWrite(i)
  \/ \E i \in 1..Len(tasks) : CheckReadSettings(i)
  \/ \E i \in 1..Len(tasks) : CheckReadTabs(i)
  \/ \E i \in 1..Len(tasks) : CheckWrite(i)

SpecMsg == InitMsg /\ [][NextMsg]_vars

(*************************** drag and drop *********************************)
UrlA1Frag == [scheme |-> "https", host |-> "a.com", port |-> "", path |-> "/1#top"]
UrlA12 == [scheme |-> "https", host |-> "a.com", port |-> "", path |-> "/12"]

\* url.trim().toLowerCase().split("#")[0].split("?")[0], on the urls of the
\* model: the fragment is cut off
NormalizeUrl(u) == IF u.path = "/1#top" THEN [u EXCEPT !.path = "/1"] ELSE u

\* a.includes(b), on the normalized urls of the model: b is a substring of a
\* when they are equal or a continues b's path
UrlIncludes(a, b) ==
  /\ a.scheme = b.scheme
  /\ a.host = b.host
  /\ a.port = b.port
  /\ (a.path = b.path \/ (a.path = "/12" /\ b.path = "/1"))

\* normalizedTabUrl && normalizedDraggedUrl && (equal || includes either way)
SimilarUrls(tabUrl, draggedUrl) ==
  LET normalizedDraggedUrl == NormalizeUrl(draggedUrl)
      normalizedTabUrl == NormalizeUrl(tabUrl)
  IN /\ normalizedTabUrl # NoUrl
     /\ normalizedDraggedUrl # NoUrl
     /\ \/ normalizedTabUrl = normalizedDraggedUrl
        \/ UrlIncludes(normalizedTabUrl, normalizedDraggedUrl)
        \/ UrlIncludes(normalizedDraggedUrl, normalizedTabUrl)

\* the tabs.onCreated handler, suspended at pc; matched is the drag record it
\* found when the tab was created
CreatedTask(pc, createdAt, matched) ==
  [kind |-> "onCreated", pc |-> pc, createdAt |-> createdAt,
   matched |-> matched, url |-> NoUrl, value |-> <<>>, ids |-> {}]

IsCreatedTask(i, pc) == tasks[i].kind = "onCreated" /\ tasks[i].pc = pc

\* chrome.tabs.onCreated fires for a tab with url tabUrl: with an unprocessed
\* drag record of a similar url the record is marked processed and
\* getUserSettings() is awaited
OnTabCreated(tabUrl) ==
  /\ opCount < MaxOps
  /\ TimersFired
  /\ opCount' = opCount + 1
  /\ IF /\ draggedUrlInfo.set
        /\ ~draggedUrlInfo.processed
        /\ SimilarUrls(tabUrl, draggedUrlInfo.url)
     THEN /\ draggedUrlInfo' = [draggedUrlInfo EXCEPT !.processed = TRUE]
          /\ tasks' = Append(tasks, CreatedTask("getUserSettings", now,
                                                draggedUrlInfo))
     ELSE UNCHANGED <<draggedUrlInfo, tasks>>
  /\ UNCHANGED <<savedTabs, parentCategories, userSettings, now, nextId,
                 completed, lastSweep, timers, scheduler, responses>>

\* onCreated: getUserSettings() settles.  removeUrlFromStorage is called with
\* the url of the record draggedUrlInfo holds at this moment; reading it from
\* null throws.  Every path but the removal ends in finally
CreatedSettings(i, ok) ==
  /\ IsCreatedTask(i, "getUserSettings")
  /\ IF ok /\ RemoveTabAfterOpen(userSettings) /\ draggedUrlInfo.set
     THEN /\ tasks' = [tasks EXCEPT ![i] =
                         [CreatedTask("getSavedTabs", tasks[i].createdAt,
                                      tasks[i].matched)
                            EXCEPT !.url = draggedUrlInfo.url]]
          /\ UNCHANGED draggedUrlInfo
     ELSE /\ tasks' = RemoveAt(tasks, i)
          /\ draggedUrlInfo' = NoDrag
  /\ UNCHANGED <<savedTabs, parentCategories, userSettings, now, nextId,
                 opCount, completed, lastSweep, timers, scheduler, responses>>

\* onCreated: the read of savedTabs in removeUrlFromStorage settles
CreatedRemoveRead(i, ok) ==
  /\ IsCreatedTask(i, "getSavedTabs")
  /\ IF ok
     THEN LET ids == EmptiedGroupIds(savedTabs, tasks[i].url)
          IN /\ tasks' =
                  [tasks EXCEPT ![i] =
                     [CreatedTask("setSavedTabs", tasks[i].createdAt,
                                  tasks[i].matched)
                        EXCEPT !.url = tasks[i].url,
                               !.value = RemoveUrlFromGroups(savedTabs, tasks[i].url),
                               !.ids = Range(ids)]]
                  \o CascadeTasks(ids)
             /\ UNCHANGED draggedUrlInfo
     ELSE /\ tasks' = RemoveAt(tasks, i)
          /\ draggedUrlInfo' = NoDrag
  /\ UNCHANGED <<savedTabs, parentCategories, userSettings, now, nextId,
                 opCount, completed, lastSweep, timers, scheduler, responses>>

\* onCreated: the set of removeUrlFromStorage settles and finally clears the
\* drag record
CreatedRemoveWrite(i, ok) ==
  /\ IsCreatedTask(i, "setSavedTabs")
  /\ tasks' = RemoveAt(tasks, i)
  /\ draggedUrlInfo' = NoDrag
  /\ IF ok
     THEN /\ savedTabs' = tasks[i].value
          /\ completed' = completed \cup
               { [op |-> "removeUrlFromStorage", groupId |-> g] : g \in tasks[i].ids }
     ELSE UNCHANGED <<savedTabs, completed>>
  /\ UNCHANGED <<parentCategories, userSettings, now, nextId, opCount,
                 lastSweep, timers, scheduler, responses>>

\* time passes until the next timer is due
AdvanceToTimer ==
  \E k \in 1..Len(timers) :
    /\ timers[k].due > now
    /\ \A j \in 1..Len(timers) : timers[j].due >= timers[k].due
    /\ now' = timers[k].due
    /\ UNCHANGED <<savedTabs, parentCategories, userSettings, tasks, nextId,
                   opCount, completed, lastSweep, hostVars>>

DragUrls == { UrlA1, UrlB1 }

CreatedTabUrls == { UrlA1, UrlA1Frag, UrlA12, UrlB1, NoUrl }

InitDrag ==
  /\ savedTabs \in
       { <<Group(1, UrlA1, "A", Now0 - 40)>>,
         <<Group2(1, UrlA1, "A", UrlA2, "A2", Now0 - 40),
           Group(2, UrlB1, "B", NoSavedAt)>> }
  /\ parentCategories =
       <<Category("c1", "Work", <<1, 2>>, <<DomainOf(UrlA1), DomainOf(UrlB1)>>)>>
  /\ userSettings \in { NoSettings, SettingsKeepTab }
  /\ now = Now0
  /\ tasks = <<>>
  /\ nextId = 3
  /\ opCount = 0
  /\ completed = {}
  /\ lastSweep = NoSweep
  /\ HostInit

NextDrag ==
  \/ \E url \in DragUrls : OnUrlDragStarted(url)
  \/ \E k \in 1..Len(timers) : DragTimeoutFires(k)
  \/ \E tabUrl \in CreatedTabUrls : OnTabCreated(tabUrl)
  \/ \E i \in 1..Len(tasks), ok \in BOOLEAN : CreatedSettings(i, ok)
  \/ \E i \in 1..Len(tasks), ok \in BOOLEAN : CreatedRemoveRead(i, ok)
  \/ \E i \in 1..Len(tasks), ok \in BOOLEAN : CreatedRemoveWrite(i, ok)
  \/ \E i \in 1..Len(tasks) : CascadeReadCategories(i)
  \/ \E i \in 1..Len(tasks) : CascadeReadTabs(i)
  \/ \E i \in 1..Len(tasks) : CascadeWrite(i)
  \/ AdvanceToTimer
  \/ Tick

SpecDrag == InitDrag /\ [][NextDrag]_vars

(****************** drag and drop, a drag already under way ****************)
\* the background script once a urlDragStarted message for url has been
\* handled at time Now0: the record is stored, its timeout is pending and
\* the message is answered; opCount counts the handlers started after that
DragUnderWay(url) ==
  /\ draggedUrlInfo = [set |-> TRUE, url |-> url, timestamp |-> Now0,
                       processed |-> FALSE]
  /\ timers = <<[callback |-> "dragTimeout", due |-> Now0 + DragTimeout]>>
  /\ scheduler = Scheduler(TRUE)
  /\ responses = <<[message |-> [BlankMessage EXCEPT !.action = "urlDragStarted",
                                                    !.url = url],
                    at |-> Now0, answered |-> TRUE, answer |-> Answer("ok")]>>

InitConsume ==
  /\ savedTabs \in
       { <<Group(1, UrlA1, "A", Now0 - 40)>>,
         <<Group2(1, UrlA1, "A", UrlA2, "A2", Now0 - 40),
           Group(2, UrlB1, "B", NoSavedAt)>> }
  /\ parentCategories =
       <<Category("c1", "Work", <<1, 2>>, <<DomainOf(UrlA1), DomainOf(UrlB1)>>)>>
  /\ userSettings \in { NoSettings, SettingsKeepTab }
  /\ now = Now0
  /\ tasks = <<>>
  /\ nextId = 3
  /\ opCount = 0
  /\ completed = {}
  /\ lastSweep = NoSweep
  /\ \E url \in DragUrls : DragUnderWay(url)

SpecConsume == InitConsume /\ [][NextDrag]_vars

(******************* calculateTimeRemaining on its own *********************)
\* the savedAt a message may carry: none, 0, and times on both sides of every
\* label's cutoff
TimeSavedAt == SweepSavedAt \cup { 0 }

\* the autoDeletePeriod a message may carry: none, "never", a label the switch
\* does not list, and the nine labels it lists
TimeLabels == { "", "never", "2weeks" } \cup FiniteLabels

\* the listener has handled MaxOps - 1 messages before
InitTime ==
  /\ savedTabs = <<>>
  /\ parentCategories = <<>>
  /\ userSettings = NoSettings
  /\ now = Now0
  /\ tasks = <<>>
  /\ nextId = 3
  /\ opCount = MaxOps - 1
  /\ completed = {}
  /\ lastSweep = NoSweep
  /\ HostInit

NextTime ==
  \/ \E savedAt \in TimeSavedAt, label \in TimeLabels :
       OnCalculateTimeRemaining(savedAt, label)
  \/ Tick

SpecTime == InitTime /\ [][NextTime]_vars

(****************************** startup ************************************)
\* setTimeout(..., 1000), in seconds
InitialCheckDelay == 1

\* faulty variant of AddDomainName: the name is added without looking for it
AddDomainNameAgain(names, groups, id) ==
  IF HasGroupId(groups, id)
  THEN Append(names, FindGroup(groups, id).domain)
  ELSE names

\* migrateParentCategoriesToDomainNames, for one id of domains: the domain of
\* the group with that id is added to domainNames if absent
AddDomainName(names, groups, id) ==
  IF HasGroupId(groups, id) /\ FindGroup(groups, id).domain \notin Range(names)
  THEN Append(names, FindGroup(groups, id).domain)
  ELSE names

RECURSIVE AddDomainNames(_, _, _)
AddDomainNames(names, groups, ids) ==
  IF ids = <<>> THEN names
  ELSE AddDomainNames(AddDomainName(names, groups, Head(ids)), groups, Tail(ids))

\* migrateParentCategoriesToDomainNames, for every parent category
MigrateCategories(categories, groups) ==
  [k \in 1..Len(categories) |->
     [categories[k] EXCEPT
        !.domainNames = AddDomainNames(@, groups, categories[k].domains)]]

\* the startup block or the onInstalled handler, suspended at pc
StartTask(kind, pc) ==
  [kind |-> kind, pc |-> pc, categories |-> <<>>, value |-> <<>>]

IsStartTask(i) == tasks[i].kind \in { "startup", "onInstalled" }

MigrationDone ==
  [op |-> "migrateParentCategoriesToDomainNames", groupId |-> 0]

\* startup block: the first getParentCategories() resolves and the migration
\* is called
StartupReadCategories(i) ==
  /\ tasks[i].kind = "startup"
  /\ tasks[i].pc = "getParentCategories"
  /\ tasks' = [tasks EXCEPT ![i] = StartTask("startup", "migrateGetCategories")]
  /\ UNCHANGED <<savedTabs, parentCategories, userSettings, now, nextId,
                 opCount, completed, lastSweep, hostVars>>

\* chrome.runtime.onInstalled fires: the context menus are created and the
\* migration is called
OnInstalled ==
  /\ opCount < MaxOps
  /\ opCount' = opCount + 1
  /\ tasks' = Append(tasks, StartTask("onInstalled", "migrateGetCategories"))
  /\ UNCHANGED <<savedTabs, parentCategories, userSettings, now, nextId,
                 completed, lastSweep, hostVars>>

\* migration: the read of parentCategories resolves
MigrateReadCategories(i) ==
  /\ IsStartTask(i)
  /\ tasks[i].pc = "migrateGetCategories"
  /\ tasks' = [tasks EXCEPT ![i] =
       [StartTask(tasks[i].kind, "migrateGetSavedTabs")
          EXCEPT !.categories = parentCategories]]
  /\ UNCHANGED <<savedTabs, parentCategories, userSettings, now, nextId,
                 opCount, completed, lastSweep, hostVars>>

\* migration: the read of savedTabs resolves and the set is issued
MigrateReadTabs(i) ==
  /\ IsStartTask(i)
  /\ tasks[i].pc = "migrateGetSavedTabs"
  /\ tasks' = [tasks EXCEPT ![i] =
       [StartTask(tasks[i].kind, "migrateSet")
          EXCEPT !.categories = tasks[i].categories,
                 !.value = MigrateCategories(tasks[i].categories, savedTabs)]]
  /\ UNCHANGED <<savedTabs, parentCategories, userSettings, now, nextId,
                 opCount, completed, lastSweep, hostVars>>

\* migration: the set takes effect; the startup block goes on to its second
\* getParentCategories(), the onInstalled handler returns
MigrateWrite(i) ==
  /\ IsStartTask(i)
  /\ tasks[i].pc = "migrateSet"
  /\ parentCategories' = tasks[i].value
  /\ completed' = completed \cup { MigrationDone }
  /\ tasks' = IF tasks[i].kind = "startup"
              THEN [tasks EXCEPT ![i] = StartTask("startup", "getParentCategoriesAfter")]
              ELSE RemoveAt(tasks, i)
  /\ UNCHANGED <<savedTabs, userSettings, now, nextId, opCount, lastSweep,
                 hostVars>>

\* an await of the startup block or of the onInstalled handler rejects: the
\* catch logs the error and the function returns
StartupFails(i) ==
  /\ IsStartTask(i)
  /\ tasks' = RemoveAt(tasks, i)
  /\ UNCHANGED <<savedTabs, parentCategories, userSettings, now, nextId,
                 opCount, completed, lastSweep, hostVars>>

\* faulty variant of SetupEffects: without chrome.alarms the function does
\* not return after the immediate check, chrome.alarms.get throws and the
\* catch sets the timer
SetupEffectsNoReturn(api) ==
  IF ~api
  THEN [get |-> FALSE, listener |-> FALSE, checkNow |-> TRUE, checkTimer |-> TRUE]
  ELSE [get |-> TRUE, listener |-> TRUE, checkNow |-> FALSE, checkTimer |-> TRUE]

\* what setupExpiredTabsCheckAlarm does: without chrome.alarms one call of
\* checkAndRemoveExpiredTabs and return; with it chrome.alarms.get, the
\* onAlarm listener and the timer of the first check
SetupEffects(api) ==
  IF ~api
  THEN [get |-> FALSE, listener |-> FALSE, checkNow |-> TRUE, checkTimer |-> FALSE]
  ELSE [get |-> TRUE, listener |-> TRUE, checkNow |-> FALSE, checkTimer |-> TRUE]

\* startup block: the second getParentCategories() resolves,
\* setupExpiredTabsCheckAlarm() runs and the block ends
StartupSetup(i) ==
  /\ tasks[i].kind = "startup"
  /\ tasks[i].pc = "getParentCategoriesAfter"
  /\ LET e == SetupEffects(scheduler.api)
     IN /\ tasks' = (RemoveAt(tasks, i)
                       \o (IF e.get THEN <<[kind |-> "alarms.get", pc |-> "get"]>>
                           ELSE <<>>))
                       \o (IF e.checkNow THEN <<SweepTask>> ELSE <<>>)
        /\ timers' = IF e.checkTimer
                     THEN Append(timers, [callback |-> "initialCheck",
                                          due |-> now + InitialCheckDelay])
                     ELSE timers
        /\ scheduler' = [scheduler EXCEPT
                           !.listener = e.listener,
                           !.setup = TRUE,
                           !.checks = IF e.checkNow THEN @ + 1 ELSE @]
  /\ UNCHANGED <<savedTabs, parentCategories, userSettings, now, nextId,
                 opCount, completed, lastSweep, draggedUrlInfo, responses>>

\* the callback of chrome.alarms.get: an existing alarm is cleared first,
\* otherwise the alarm is created
SetupAlarmsGet(i) ==
  /\ tasks[i].kind = "alarms.get"
  /\ tasks[i].pc = "get"
  /\ IF scheduler.alarm
     THEN /\ tasks' = [tasks EXCEPT ![i] = [kind |-> "alarms.get", pc |-> "clear"]]
          /\ UNCHANGED scheduler
     ELSE /\ tasks' = RemoveAt(tasks, i)
          /\ scheduler' = [scheduler EXCEPT !.alarm = TRUE]
  /\ UNCHANGED <<savedTabs, parentCategories, userSettings, now, nextId,
                 opCount, completed, lastSweep, draggedUrlInfo, timers, responses>>

\* the callback of chrome.alarms.clear creates the alarm
SetupAlarmCleared(i) ==
  /\ tasks[i].kind = "alarms.get"
  /\ tasks[i].pc = "clear"
  /\ tasks' = RemoveAt(tasks, i)
  /\ scheduler' = [scheduler EXCEPT !.alarm = TRUE]
  /\ UNCHANGED <<savedTabs, parentCategories, userSettings, now, nextId,
                 opCount, completed, lastSweep, draggedUrlInfo, timers, responses>>

\* the timer of the first check fires
InitialCheckFires(k) ==
  /\ timers[k].callback = "initialCheck"
  /\ timers[k].due <= now
  /\ timers' = RemoveAt(timers, k)
  /\ tasks' = Append(tasks, SweepTask)
  /\ scheduler' = [scheduler EXCEPT !.checks = @ + 1]
  /\ UNCHANGED <<savedTabs, parentCategories, userSettings, now, nextId,
                 opCount, completed, lastSweep, draggedUrlInfo, responses>>

\* the alarm fires and the onAlarm listener starts a check
AlarmFires ==
  /\ scheduler.alarm
  /\ scheduler.listener
  /\ opCount < MaxOps
  /\ opCount' = opCount + 1
  /\ tasks' = Append(tasks, SweepTask)
  /\ scheduler' = [scheduler EXCEPT !.checks = @ + 1]
  /\ UNCHANGED <<savedTabs, parentCategories, userSettings, now, nextId,
                 completed, lastSweep, draggedUrlInfo, timers, responses>>

\* parent categories before the migration, and with part of it done
StartupCategories ==
  { <<>>,
    <<Category("c1", "Work", <<1, 2>>, <<>>),
      Category("c2", "Later", <<2>>, <<DomainOf(UrlB1)>>)>>,
    <<Category("c1", "Work", <<1, 2>>, <<DomainOf(UrlA1)>>),
      Category("c2", "Later", <<2, 1>>, <<>>)>> }

InitStartup ==
  /\ savedTabs \in InitSavedTabs
  /\ parentCategories \in StartupCategories
  /\ userSettings \in { NoSettings, Settings("30sec") }
  /\ now = Now0
  /\ tasks = <<StartTask("startup", "getParentCategories")>>
  /\ nextId = 3
  /\ opCount = 0
  /\ completed = {}
  /\ lastSweep = NoSweep
  /\ draggedUrlInfo = NoDrag
  /\ timers = <<>>
  /\ scheduler \in { Scheduler(FALSE), Scheduler(TRUE),
                     [Scheduler(TRUE) EXCEPT !.alarm = TRUE] }
  /\ responses = <<>>

NextStartup ==
  \/ \E i \in 1..Len(tasks) : StartupReadCategories(i)
  \/ OnInstalled
  \/ \E i \in 1..Len(tasks) : MigrateReadCategories(i)
  \/ \E i \in 1..Len(tasks) : MigrateReadTabs(i)
  \/ \E i \in 1..Len(tasks) : MigrateWrite(i)
  \/ \E i \in 1..Len(tasks) : StartupFails(i)
  \/ \E i \in 1..Len(tasks) : StartupSetup(i)
  \/ \E i \in 1..Len(tasks) : SetupAlarmsGet(i)
  \/ \E i \in 1..Len(tasks) : SetupAlarmCleared(i)
  \/ \E k \in 1..Len(timers) : InitialCheckFires(k)
  \/ AlarmFires
  \/ \E i \in 1..Len(tasks) : CheckReadSettings(i)
  \/ \E i \in 1..Len(tasks) : CheckReadTabs(i)
  \/ \E i \in 1..Len(tasks) : CheckWrite(i)
  \/ Tick

SpecStartup == InitStartup /\ [][NextStartup]_vars

(****************************** claims *************************************)
GroupIds(groups) == { groups[k].id : k \in 1..Len(groups) }

InDomains(groupId) ==
  \E k \in 1..Len(parentCategories) : groupId \in Range(parentCategories[k].domains)

CascadeInFlight(groupId) ==
  \E i \in 1..Len(tasks) :
    /\ tasks[i].kind = "removeFromParentCategories"
    /\ tasks[i].groupId = groupId

\* C1: once removeUrlFromStorage has removed the last url of a group and the
\* cascade it started for that group has finished, the group is absent from
\* savedTabs and its id is in no parent category's domains.
RemovalCascade ==
  \A c \in completed :
    (c.op = "removeUrlFromStorage" /\ ~CascadeInFlight(c.groupId))
      => /\ c.groupId \notin GroupIds(savedTabs)
         /\ ~InDomains(c.groupId)

\* C2: after a sweep has committed the pruned collection, no parent
\* category's domains contains the id of a group that sweep evicted.
ExpirationCascade ==
  \A c \in completed :
    c.op = "checkAndRemoveExpiredTabs" => ~InDomains(c.groupId)

RemovalStep ==
  \/ \E url \in Urls : RemoveUrlRead(url)
  \/ \E i \in 1..Len(tasks) :
       \/ RemoveUrlWrite(i)
       \/ CascadeReadCategories(i)
       \/ CascadeReadTabs(i)
       \/ CascadeWrite(i)
       \/ CheckReadSettings(i)
       \/ CheckReadTabs(i)
       \/ CheckWrite(i)
  \/ CheckStart

SameIdentity(before, after) ==
  /\ Len(after) = Len(before)
  /\ \A k \in 1..Len(before) :
       /\ after[k].id = before[k].id
       /\ after[k].name = before[k].name
       /\ after[k].domainNames = before[k].domainNames

\* C3: no step of removeUrlFromStorage, removeFromParentCategories or
\* checkAndRemoveExpiredTabs changes a parent category's id, name or
\* domainNames; what removeFromParentCategories writes is the categories it
\* read with groupId, and nothing else, deleted from every domains list.
DurableIdentity ==
  [][ RemovalStep =>
        /\ SameIdentity(parentCategories, parentCategories')
        /\ \A i \in 1..Len(tasks) :
             CascadeWrite(i) =>
               /\ SameIdentity(tasks[i].categories, parentCategories')
               /\ \A k \in 1..Len(parentCategories') :
                    parentCategories'[k].domains =
                      SelectSeq(tasks[i].categories[k].domains,
                                LAMBDA id : id # tasks[i].groupId) ]_vars

\* a cascade found group 1 and wrote: id 1 is gone from a domains list whose
\* category still names the group's domain
DurableIdentityWitness ==
  /\ [op |-> "removeUrlFromStorage", groupId |-> 1] \in completed
  /\ Len(parentCategories) > 0
  /\ 1 \notin Range(parentCategories[1].domains)
  /\ DomainOf(UrlA1) \in Range(parentCategories[1].domainNames)

\* C4: no two groups of the committed savedTabs have the same domain.
DomainUniqueness ==
  \A j, k \in 1..Len(savedTabs) :
    j # k => savedTabs[j].domain # savedTabs[k].domain

\* two saveTabs calls read the same snapshot and each created a group for the
\* domain; one has written, the other is about to
DomainUniquenessWitness ==
  \E i \in 1..Len(tasks) :
    /\ tasks[i].kind = "saveTabs"
    /\ \E j \in 1..Len(tasks[i].value), k \in 1..Len(savedTabs) :
         /\ tasks[i].value[j].domain = savedTabs[k].domain
         /\ tasks[i].value[j].id # savedTabs[k].id
         /\ tasks[i].value[j].id >= 3
         /\ savedTabs[k].id >= 3

\* C5: no group of the committed savedTabs has two entries with the same url.
DedupInvariant ==
  \A g \in 1..Len(savedTabs) :
    \A j, k \in 1..Len(savedTabs[g].urls) :
      j # k => savedTabs[g].urls[j].url # savedTabs[g].urls[k].url

\* a saveTabs call whose batch holds one url twice, under two titles, is about
\* to commit a group that holds the url once
DedupWitness ==
  \E i \in 1..Len(tasks) :
    /\ tasks[i].kind = "saveTabs"
    /\ \E j, k \in 1..Len(tasks[i].tabs) :
         /\ j < k
         /\ tasks[i].tabs[j].url = tasks[i].tabs[k].url
         /\ tasks[i].tabs[j].title # tasks[i].tabs[k].title
         /\ \E g \in 1..Len(tasks[i].value) :
              Cardinality({ e \in 1..Len(tasks[i].value[g].urls) :
                tasks[i].value[g].urls[e].url = tasks[i].tabs[j].url }) = 1

\* C6: every group of the committed savedTabs has at least one url entry.
NoEmptyGroup ==
  \A g \in 1..Len(savedTabs) : Len(savedTabs[g].urls) >= 1

\* removeUrlFromStorage removed a group's last url and committed without it,
\* next to a group that saveTabs created
NoEmptyGroupWitness ==
  /\ \E c \in completed :
       c.op = "removeUrlFromStorage" /\ c.groupId \notin GroupIds(savedTabs)
  /\ \E g \in 1..Len(savedTabs) : savedTabs[g].id >= 3

\* the durations the retention labels stand for, in seconds
LabelSeconds(label) ==
  CASE label = "30sec" -> 30
    [] label = "1min" -> 60
    [] label = "1hour" -> 3600
    [] label = "1day" -> 86400
    [] label = "7days" -> 604800
    [] label = "14days" -> 1209600
    [] label = "30days" -> 2592000
    [] label = "180days" -> 15552000
    [] label = "365days" -> 31536000

HasSavedAt(group) == group.savedAt # NoSavedAt

Evicted(group) == group.id \notin GroupIds(lastSweep.kept)

\* C7: under a finite label of duration D, the filter pass of a sweep at time
\* currentTime evicts a group that has a savedAt iff savedAt < currentTime - D;
\* savedAt = currentTime - 40 is evicted under 30sec and kept under 1min.
EvictionCriterion ==
  (lastSweep.ran /\ userSettings.autoDeletePeriod \in FiniteLabels) =>
    \A g \in Range(lastSweep.snapshot) :
      HasSavedAt(g) =>
        /\ Evicted(g) <=>
             g.savedAt < lastSweep.currentTime
                           - LabelSeconds(userSettings.autoDeletePeriod)
        /\ (g.savedAt = lastSweep.currentTime - 40
              /\ userSettings.autoDeletePeriod = "30sec") => Evicted(g)
        /\ (g.savedAt = lastSweep.currentTime - 40
              /\ userSettings.autoDeletePeriod = "1min") => ~Evicted(g)

\* under 1hour, a sweep met one group exactly at the cutoff and one a second
\* older: the first stays, the second is gone from the committed collection
EvictionCriterionWitness ==
  /\ lastSweep.ran
  /\ userSettings.autoDeletePeriod = "1hour"
  /\ tasks = <<>>
  /\ savedTabs = lastSweep.kept
  /\ \E g, h \in Range(lastSweep.snapshot) :
       /\ g.savedAt = lastSweep.currentTime - 3600 /\ ~Evicted(g)
       /\ h.savedAt = lastSweep.currentTime - 3601 /\ Evicted(h)

\* the stored setting switches retention off: nothing stored, no
\* autoDeletePeriod, "never", or a label outside the enumeration
RetentionOff ==
  \/ ~userSettings.present
  \/ userSettings.autoDeletePeriod \notin FiniteLabels

\* C8: with retention off, checkAndRemoveExpiredTabs never gets as far as
\* reading savedTabs, evicts nothing and writes nothing: savedTabs and
\* parentCategories stay as they are.
RetentionDisabled ==
  /\ [](RetentionOff =>
          /\ ~lastSweep.ran
          /\ completed = {}
          /\ \A i \in 1..Len(tasks) : tasks[i].pc = "getUserSettings")
  /\ [][RetentionOff => UNCHANGED <<savedTabs, parentCategories>>]_vars

\* under a label outside the enumeration a sweep has run to its end next to a
\* group more than a year old
RetentionDisabledWitness ==
  /\ userSettings = Settings("2weeks")
  /\ opCount > 0
  /\ tasks = <<>>
  /\ \E g \in Range(savedTabs) : HasSavedAt(g) /\ g.savedAt < now - 31536000

\* C9: a group without savedAt is in the kept collection of every sweep.
NoSavedAtKept ==
  lastSweep.ran =>
    \A g \in Range(lastSweep.snapshot) : ~HasSavedAt(g) => ~Evicted(g)

\* a sweep evicted a group and kept the one without savedAt, which is in the
\* committed collection
NoSavedAtKeptWitness ==
  /\ lastSweep.ran
  /\ tasks = <<>>
  /\ \E g, h \in Range(lastSweep.snapshot) :
       /\ ~HasSavedAt(g) /\ g.id \in GroupIds(savedTabs)
       /\ HasSavedAt(h) /\ Evicted(h) /\ h.id \notin GroupIds(savedTabs)

Reorder(s, p) == [k \in 1..Len(s) |-> s[p[k]]]

\* C10: sweeping the kept collection of a sweep again, with the same current
\* time and cutoff, returns that collection; the groups kept do not depend on
\* the order of the groups.
SweepIdempotence ==
  lastSweep.ran =>
    /\ SweepFilter(lastSweep.kept, lastSweep.currentTime, lastSweep.cutoffTime)
         = lastSweep.kept
    /\ \A p \in Permutations(1..Len(lastSweep.snapshot)) :
         Range(SweepFilter(Reorder(lastSweep.snapshot, p),
                           lastSweep.currentTime, lastSweep.cutoffTime))
           = Range(lastSweep.kept)

\* a first sweep evicted and committed; a second one at the same time read
\* what the first left and kept all of it
SweepIdempotenceWitness ==
  /\ lastSweep.ran
  /\ completed # {}
  /\ tasks = <<>>
  /\ opCount = 2
  /\ lastSweep.currentTime = Now0
  /\ lastSweep.snapshot # <<>>
  /\ lastSweep.kept = savedTabs
  /\ Len(lastSweep.kept) = Len(lastSweep.snapshot)

\* scheme://host of a url
SchemeHost(u) == [scheme |-> u.scheme, host |-> u.host]

\* a tab saveTabs accepts: it has a url, the url parses, and it is not a page
\* of an extension
Accepted(tab) ==
  /\ tab.url # NoUrl
  /\ tab.url.scheme # ""
  /\ tab.url.scheme # "chrome-extension"

GroupsOfDomain(groups, d) == { k \in 1..Len(groups) : groups[k].domain = d }

HoldsUrl(group, u) == \E e \in 1..Len(group.urls) : group.urls[e].url = u

\* C11: when saveTabs commits, every accepted tab of its batch is in the one
\* group whose domain is scheme://host of the tab's url, and in no other
\* group; from an empty savedTabs, https://a.com/1 and https://a.com/2 give
\* exactly one group, of domain https://a.com, with the two urls.
MergeByDomain ==
  [][ \A i \in 1..Len(tasks) :
        SaveTabsWrite(i) =>
          /\ \A t \in Range(tasks[i].tabs) :
               Accepted(t) =>
                 /\ Cardinality(GroupsOfDomain(savedTabs', SchemeHost(t.url))) = 1
                 /\ \A k \in 1..Len(savedTabs') :
                      HoldsUrl(savedTabs'[k], t.url)
                        <=> savedTabs'[k].domain = SchemeHost(t.url)
          /\ (/\ opCount = 1
              /\ savedTabs = <<>>
              /\ tasks[i].tabs = <<Tab(UrlA1, "A"), Tab(UrlA2, "A2")>>) =>
                /\ Len(savedTabs') = 1
                /\ savedTabs'[1].domain = [scheme |-> "https", host |-> "a.com"]
                /\ [e \in 1..Len(savedTabs'[1].urls) |-> savedTabs'[1].urls[e].url]
                     = <<UrlA1, UrlA2>> ]_vars

\* the only saveTabs call so far has committed one new group that holds
\* https://a.com/1 and https://a.com/2
MergeByDomainWitness ==
  /\ opCount = 1
  /\ tasks = <<>>
  /\ Len(savedTabs) = 1
  /\ savedTabs[1].id >= 3
  /\ savedTabs[1].domain = [scheme |-> "https", host |-> "a.com"]
  /\ HoldsUrl(savedTabs[1], UrlA1)
  /\ HoldsUrl(savedTabs[1], UrlA2)

\* a url that starts with one of the default excludePatterns
ExcludedUrl(u) == u.scheme \in { "chrome-extension", "chrome" }

\* C12: no group of the committed savedTabs holds a url that starts with an
\* excluded prefix (chrome-extension:// or chrome://).
ExclusionInvariant ==
  \A g \in 1..Len(savedTabs) :
    \A e \in 1..Len(savedTabs[g].urls) : ~ExcludedUrl(savedTabs[g].urls[e].url)

\* a tab without url, or with a url that new URL() rejects
BadTab(tab) == tab.url = NoUrl \/ tab.url.scheme = ""

\* C13: when saveTabs commits a batch that holds a tab with a missing or
\* unparsable url, at whatever position, every tab of the batch with a valid,
\* non-excluded url is in savedTabs, and the bad tab has left no entry and no
\* group there.
PerItemIsolation ==
  [][ \A i \in 1..Len(tasks) :
        (SaveTabsWrite(i) /\ \E t \in Range(tasks[i].tabs) : BadTab(t)) =>
          /\ \A t \in Range(tasks[i].tabs) :
               (~BadTab(t) /\ ~ExcludedUrl(t.url)) =>
                 \E g \in 1..Len(savedTabs') : HoldsUrl(savedTabs'[g], t.url)
          /\ \A g \in 1..Len(savedTabs') :
               /\ savedTabs'[g].domain.scheme # ""
               /\ \A e \in 1..Len(savedTabs'[g].urls) :
                    ~BadTab(savedTabs'[g].urls[e]) ]_vars

\* a saveTabs call whose batch has an unusable tab between two usable ones
\* has merged both of them and is about to commit
PerItemIsolationWitness ==
  \E i \in 1..Len(tasks) :
    /\ tasks[i].kind = "saveTabs"
    /\ Len(tasks[i].tabs) = 3
    /\ ~BadTab(tasks[i].tabs[1]) /\ ~ExcludedUrl(tasks[i].tabs[1].url)
    /\ BadTab(tasks[i].tabs[2])
    /\ ~BadTab(tasks[i].tabs[3]) /\ ~ExcludedUrl(tasks[i].tabs[3].url)
    /\ tasks[i].tabs[1].url # tasks[i].tabs[3].url
    /\ \E g \in 1..Len(tasks[i].value) :
         HoldsUrl(tasks[i].value[g], tasks[i].tabs[1].url)
    /\ \E g \in 1..Len(tasks[i].value) :
         HoldsUrl(tasks[i].value[g], tasks[i].tabs[3].url)

UrlAbsent(groups, u) == \A g \in 1..Len(groups) : ~HoldsUrl(groups[g], u)

\* C14: with calls made one after the other, a removeUrlFromStorage(url) for
\* a url that no group holds commits savedTabs as it was, starts no cascade
\* and leaves parentCategories alone; and every call leaves the url absent,
\* so a second call for the same url is such a call.
RemoveIdempotence ==
  [][ \A i \in 1..Len(tasks) :
        RemoveUrlWrite(i) =>
          /\ UrlAbsent(savedTabs', tasks[i].url)
          /\ UrlAbsent(savedTabs, tasks[i].url) =>
               /\ savedTabs' = savedTabs
               /\ parentCategories' = parentCategories
               /\ tasks[i].removed = {}
               /\ Len(tasks') = Len(tasks) - 1 ]_vars

\* a first call removed the last url of group 1; the second call, for the
\* same url, has read the store without the group and is about to commit
RemoveIdempotenceWitness ==
  /\ opCount = 2
  /\ [op |-> "removeUrlFromStorage", groupId |-> 1] \in completed
  /\ \E i \in 1..Len(tasks) :
       /\ tasks[i].kind = "removeUrlFromStorage"
       /\ tasks[i].url = UrlA1
       /\ tasks[i].removed = {}
       /\ tasks[i].value = savedTabs
       /\ UrlAbsent(savedTabs, UrlA1)

HandlerDone(m) == \A i \in 1..Len(tasks) :
  tasks[i].kind = "onMessage" => tasks[i].msg # m

\* C15: a message whose handler has run to its end, with nothing of it left
\* suspended, has been answered.
AlwaysAnswered ==
  \A m \in 1..Len(responses) : HandlerDone(m) => responses[m].answered

\* C16: without chrome.alarms no alarm exists, no onAlarm listener is
\* registered and no timer is set; once setupExpiredTabsCheckAlarm has run,
\* checkAndRemoveExpiredTabs has been called exactly once and the startup
\* block has ended.
SchedulerUnavailable ==
  ~scheduler.api =>
    /\ ~scheduler.alarm
    /\ ~scheduler.listener
    /\ timers = <<>>
    /\ \A i \in 1..Len(tasks) : tasks[i].kind # "alarms.get"
    /\ scheduler.setup =>
         /\ scheduler.checks = 1
         /\ \A i \in 1..Len(tasks) : tasks[i].kind # "startup"
    /\ ~scheduler.setup => scheduler.checks = 0

\* without chrome.alarms the startup block has ended and the one check it
\* started has run to its end, after a pass over the stored groups
SchedulerUnavailableWitness ==
  /\ ~scheduler.api
  /\ scheduler.setup
  /\ scheduler.checks = 1
  /\ lastSweep.ran
  /\ tasks = <<>>

NoEviction == \A c \in completed : c.op # "checkAndRemoveExpiredTabs"

SweepWouldEvict(s, t, d) ==
  SweepFilter(<<Group(1, UrlA1, "A", s)>>, t, t - d) = <<>>

\* C17: for a savedAt and a finite label of duration D the answer of
\* calculateTimeRemaining is timeRemaining = savedAt + D - now and
\* expirationTime = savedAt + D, negative exactly when a sweep at that time
\* evicts a group with that savedAt; the answer is null exactly when the label
\* is absent, never or unlisted, or savedAt is missing (absent or 0), and in
\* those cases the sweep does not evict.
TimeAgreement ==
  \A m \in 1..Len(responses) :
    LET r == responses[m]
        s == r.message.savedAt
        label == r.message.autoDeletePeriod
        missing == s = NoSavedAt \/ s = 0
    IN r.message.action = "calculateTimeRemaining" =>
         /\ r.answered
         /\ r.answer.null <=> (label \notin FiniteLabels \/ missing)
         /\ ~r.answer.null =>
              /\ r.answer.timeRemaining = s + LabelSeconds(label) - r.at
              /\ r.answer.expirationTime = s + LabelSeconds(label)
              /\ r.answer.timeRemaining < 0
                   <=> SweepWouldEvict(s, r.at, LabelSeconds(label))
         /\ (label \in FiniteLabels /\ missing) =>
              ~SweepWouldEvict(s, r.at, LabelSeconds(label))
         /\ label \notin FiniteLabels =>
              \/ AutoDeleteDisabled(Settings(label))
              \/ GetExpirationPeriodMs(label) = Null

\* under 1hour, asked one second after the cutoff passed the group's savedAt:
\* the answer is -1
TimeAgreementWitness ==
  \E m \in 1..Len(responses) :
    /\ responses[m].message.action = "calculateTimeRemaining"
    /\ responses[m].message.autoDeletePeriod = "1hour"
    /\ responses[m].message.savedAt = responses[m].at - 3601
    /\ ~responses[m].answer.null
    /\ responses[m].answer.timeRemaining = -1

\* C19: once a sweep under a finite label has filtered the stored groups and
\* every sweep has run to its end, every group of the committed savedTabs has
\* a savedAt.
BackfillCommitted ==
  (/\ lastSweep.ran
   /\ userSettings.autoDeletePeriod \in FiniteLabels
   /\ tasks = <<>>) =>
    \A g \in Range(savedTabs) : HasSavedAt(g)

\* C20: a drag record that is older than 10 seconds and unprocessed is gone
\* once the timers due have run, and no tabs.onCreated handler that found a
\* record more than 10 seconds after the drag started gets as far as
\* removing a url.
DragRecordExpires ==
  /\ (/\ draggedUrlInfo.set
      /\ ~draggedUrlInfo.processed
      /\ \A k \in 1..Len(timers) : timers[k].due > now) =>
       now <= draggedUrlInfo.timestamp + DragTimeout
  /\ \A i \in 1..Len(tasks) :
       (tasks[i].kind = "onCreated" /\ tasks[i].pc # "getUserSettings") =>
         tasks[i].createdAt <= tasks[i].matched.timestamp + DragTimeout


\* the tabs.onCreated handler i leaves its try block in this step: its
\* finally runs
CreatedFinally(i) ==
  /\ tasks[i].kind = "onCreated"
  /\ \/ \E ok \in BOOLEAN : CreatedSettings(i, ok)
     \/ \E ok \in BOOLEAN : CreatedRemoveRead(i, ok)
     \/ \E ok \in BOOLEAN : CreatedRemoveWrite(i, ok)
  /\ draggedUrlInfo' = NoDrag

\* C21: the url a tabs.onCreated handler hands to removeUrlFromStorage is the
\* url of the drag record that matched the created tab, and the handler's
\* final clear never discards a record that a later urlDragStarted stored
\* (a record still unprocessed).
DragConsumption ==
  /\ [](\A i \in 1..Len(tasks) :
          (tasks[i].kind = "onCreated" /\ tasks[i].pc # "getUserSettings") =>
            tasks[i].url = tasks[i].matched.url)
  /\ [][\A i \in 1..Len(tasks) :
          CreatedFinally(i) => ~(draggedUrlInfo.set /\ ~draggedUrlInfo.processed)]_vars


\* C22: from one committed value of savedTabs to the next, a domain that has
\* a group in both keeps its group's id: an id is generated only for a domain
\* that has no group in the store.
GroupIdStability ==
  [][\A j \in 1..Len(savedTabs), k \in 1..Len(savedTabs') :
       savedTabs[j].domain = savedTabs'[k].domain =>
         savedTabs[j].id = savedTabs'[k].id]_vars


\* the urls a collection of groups holds
UrlsOf(groups) ==
  UNION { { groups[k].urls[n].url : n \in 1..Len(groups[k].urls) } :
          k \in 1..Len(groups) }

\* the handler that suspended on its write of savedTabs in this step
Issued == tasks'[Len(tasks')]

Suspends(kind) == Len(tasks') > Len(tasks) /\ Issued.kind = kind

\* a handler's read of savedTabs: the collection it will write holds every
\* url it read, but for the url removeUrlFromStorage was called with and the
\* groups the sweep found expired
ReadKeepsUrls ==
  /\ Suspends("saveTabs") => UrlsOf(savedTabs) \subseteq UrlsOf(Issued.value)
  /\ Suspends("removeUrlFromStorage") =>
       UrlsOf(Issued.value) = UrlsOf(savedTabs) \ { Issued.url }
  /\ Suspends("updateTabTimestamps") =>
       UrlsOf(Issued.value) = UrlsOf(savedTabs)
  /\ \A i \in 1..Len(tasks) :
       (CheckReadTabs(i) /\ Len(tasks') = Len(tasks)) =>
         \A g \in Range(savedTabs) :
           IF g.id \in tasks'[i].evicted
           THEN ~MissingSavedAt(g) /\ IsGroupExpired(g, tasks[i].cutoffTime)
           ELSE UrlsOf(<<g>>) \subseteq UrlsOf(tasks'[i].value)

\* a handler's write of savedTabs: the stored collection becomes the one the
\* handler computed from what it read, whatever was committed since
WriteReplacesAll ==
  /\ \A i \in 1..Len(tasks) :
       (SaveTabsWrite(i) \/ RemoveUrlWrite(i) \/ CheckWrite(i) \/ UpdateWrite(i))
         => savedTabs' = tasks[i].value
  /\ savedTabs' # savedTabs =>
       \E i \in 1..Len(tasks) :
         SaveTabsWrite(i) \/ RemoveUrlWrite(i) \/ CheckWrite(i) \/ UpdateWrite(i)

\* C23: every handler writes back the whole collection it computed from its
\* own read, which keeps every url it read that it was not asked to remove
\* and that had not expired; so a url can go missing without being removed
\* or expired only by being committed between another handler's read and
\* write (last writer wins).
LastWriterWins == [][ReadKeepsUrls /\ WriteReplacesAll]_vars

\* a saveTabs call has created group 3 for https://b.com and has completed;
\* a sweep that read savedTabs before that commit evicted group 1 and wrote
\* last: the url the save committed is gone, though no removeUrlFromStorage
\* ran and group 3, having no savedAt, was never expired
LastWriterWinsWitness ==
  /\ tasks = <<>>
  /\ opCount = 2
  /\ nextId = 4
  /\ [op |-> "checkAndRemoveExpiredTabs", groupId |-> 1] \in completed
  /\ \A c \in completed : c.groupId # 3
  /\ 3 \notin GroupIds(savedTabs)
  /\ UrlB1 \notin UrlsOf(savedTabs)

====
